---- MODULE Spec2Model ----
(***************************************************************************)
(* A model of settlers.py: the hex graph (Hex, CatanHex), the graph        *)
(* builder (HexMap), the Catan boards (CatanMap, Catan56Map) with their    *)
(* derived orderings, and the layout loop with its validators.             *)
(*                                                                         *)
(* Tiles are addressed by their id (Hex.next_id counts from 0).  The y     *)
(* coordinate is kept in half units (the source's y is a multiple of 0.5), *)
(* so a tile's field y holds 2 * y of the source.                          *)
(***************************************************************************)
EXTENDS Integers, Sequences, FiniteSets, TLC

VARIABLES
    tiles,          \* id -> the Hex/CatanHex object with that id
    next_id,        \* Hex.next_id
    hexes,          \* HexMap.hexes
    bounds,         \* HexMap.bounds
    terrain,        \* CatanMap.terrain
    ports,          \* CatanMap.ports
    columns,        \* CatanMap.columns
    spiral,         \* CatanMap.spiral
    intersections,  \* CatanMap.intersections
    tries,          \* CatanMap.tries
    variant,        \* the class of the map: "HexMap", "CatanMap" or "Catan56Map"
    use_frame,      \* CatanMap.use_frame
    args,           \* the arguments of the running layout call
    calls,          \* how often the running layout call has run each setter
    ncalls,         \* how many operations the free graph building has called
    local,          \* the local variables of the method that is running
    pc,             \* where the program is
    err             \* the exception that ended it, "" when none

vars == <<tiles, next_id, hexes, bounds, terrain, ports, columns, spiral,
          intersections, tries, variant, use_frame, args, calls, ncalls,
          local, pc, err>>

\* ------------------------------------------------------------------ bounds

\* The free graph building creates at most this many tiles,
MaxHexes == 7

\* and makes at most this many calls.
MaxCalls == 5

\* A shuffle leaves the list rotated by at most this many places.
MaxShift == 1

\* layout is given at most this many validators,
MaxValidators == 2

\* and the model follows it up to this value of tries.
MaxTries == 3

\* ------------------------------------------------------------------ Hex

\* Python's None in a neighbor slot (ids are >= 0).
None == -1

\* Hex.angles
angles == <<0, 60, 120, 180, 240, 300>>

AngleSet == {angles[i] : i \in 1..Len(angles)}

\* Hex.angle_xy, dy in half units
angle_xy(angle) ==
    CASE angle = 0   -> <<0, -2>>
      [] angle = 60  -> <<1, -1>>
      [] angle = 120 -> <<1, 1>>
      [] angle = 180 -> <<0, 2>>
      [] angle = 240 -> <<-1, 1>>
      [] angle = 300 -> <<-1, -1>>

\* the pips without the abs
PipsOfSigned(value) == 6 - (7 - value)

\* CatanHex.num setter: pips = 6 - abs(7 - value)
PipsOf(value) == 6 - (IF 7 - value >= 0 THEN 7 - value ELSE value - 7)

\* CatanHex.__init__ / Hex.__init__: a new tile, hex_params being the port flag
CatanHex(hex_params) ==
    [neighbors |-> [a \in AngleSet |-> None], x |-> 0, y |-> 0,
     terr |-> "NONE", num |-> 0, pips |-> PipsOf(0), port |-> hex_params]

\* Hex.new_neighbor: self.neighbors[angle] = neighbor, the link back, and the
\* neighbor's coordinates; T is the tile store, the result the store after.
NewNeighbor(T, self, angle, neighbor) ==
    LET T1 == [T EXCEPT ![self].neighbors[angle] = neighbor]
        T2 == [T1 EXCEPT ![neighbor].neighbors[(angle + 180) % 360] = self]
        d  == angle_xy(angle)
    IN  [T2 EXCEPT ![neighbor].x = T2[self].x + d[1],
                   ![neighbor].y = T2[self].y + d[2]]

\* Hex.join_neighbors, from the i-th angle on
RECURSIVE JoinFrom(_, _, _)
JoinFrom(T, self, i) ==
    IF i > Len(angles) THEN T
    ELSE LET angle  == angles[i]
             target == T[self].neighbors[angle]
             join   == T[self].neighbors[(angle + 60) % 360]
         IN  JoinFrom(IF target # None /\ join # None
                        THEN NewNeighbor(T, target, (angle + 120) % 360, join)
                        ELSE T,
                      self, i + 1)

\* join_neighbors linking nothing
JoinNothing(T, self) == T

\* Hex.join_neighbors
JoinNeighbors(T, self) == JoinFrom(T, self, 1)

\* Hex.delete_neighbors, from the i-th angle on
RECURSIVE DeleteFrom(_, _, _)
DeleteFrom(T, self, i) ==
    IF i > Len(angles) THEN T
    ELSE LET angle  == angles[i]
             target == T[self].neighbors[angle]
         IN  DeleteFrom(IF target # None
                          THEN LET T1 == [T EXCEPT ![target].neighbors[(angle + 180) % 360] = None]
                               IN  [T1 EXCEPT ![self].neighbors[angle] = None]
                          ELSE T,
                        self, i + 1)

DeleteNeighbors(T, self) == DeleteFrom(T, self, 1)

\* ------------------------------------------------------------------ HexMap
\* A map under construction is a record g: the tile store, the id counter and
\* the hexes list; the growing operations also carry the list of the tiles they
\* made (new_hexes).

EmptyMap == [tiles |-> <<>>, next_id |-> 0, hexes |-> <<>>, new_hexes |-> <<>>]

\* HexMap.start_hex
StartHex(g, hex_params) ==
    [tiles     |-> g.tiles @@ (g.next_id :> CatanHex(hex_params)),
     next_id   |-> g.next_id + 1,
     hexes     |-> Append(g.hexes, g.next_id),
     new_hexes |-> <<g.next_id>>]

\* the loop of grow_hex over angles[i..]: a new tile for every empty slot
RECURSIVE GrowLoop(_, _, _, _, _)
GrowLoop(g, tile, angs, hex_params, i) ==
    IF i > Len(angs) THEN g
    ELSE IF g.tiles[tile].neighbors[angs[i]] = None
           THEN LET new_hex == g.next_id
                    T1 == g.tiles @@ (new_hex :> CatanHex(hex_params))
                IN  GrowLoop([g EXCEPT !.tiles = NewNeighbor(T1, tile, angs[i], new_hex),
                                       !.next_id = new_hex + 1,
                                       !.new_hexes = Append(g.new_hexes, new_hex)],
                             tile, angs, hex_params, i + 1)
           ELSE GrowLoop(g, tile, angs, hex_params, i + 1)

\* HexMap.grow_hex; new_hexes of the result are the tiles this call made
GrowHex(g, tile, angs, hex_params) ==
    LET g1 == GrowLoop([g EXCEPT !.new_hexes = <<>>], tile, angs, hex_params, 1)
    IN  [g1 EXCEPT !.tiles = JoinNeighbors(g1.tiles, tile),
                   !.hexes = g1.hexes \o g1.new_hexes]

\* the loop of grow_map over the copy of hexes, from its i-th tile on
RECURSIVE GrowMapLoop(_, _, _, _, _, _)
GrowMapLoop(g, copy, angs, hex_params, i, acc) ==
    IF i > Len(copy) THEN [g EXCEPT !.new_hexes = acc]
    ELSE LET g1 == GrowHex(g, copy[i], angs, hex_params)
         IN  \* (the test has g1 computed before the next round starts)
             CASE g1.next_id >= g.next_id ->
                 GrowMapLoop(g1, copy, angs, hex_params, i + 1, acc \o g1.new_hexes)

\* HexMap.grow_map
GrowMap(g, angs, hex_params) == GrowMapLoop(g, g.hexes, angs, hex_params, 1, <<>>)

\* HexMap.surround_hex
SurroundHex(g, tile, hex_params) == GrowHex(g, tile, angles, hex_params)

\* HexMap.surround_map
SurroundMap(g, hex_params) == GrowMap(g, angles, hex_params)

\* ------------------------------------------------------------------ free graph building
\* Any sequence of the HexMap and Hex operations, on any tile and angles, while
\* the map holds at most MaxHexes tiles.

TheMap == [tiles |-> tiles, next_id |-> next_id, hexes |-> hexes, new_hexes |-> <<>>]

\* the angle tuples the calls are given
AngleChoices == {<<0>>, <<120>>, <<180>>, <<60, 120>>}

Ids == 0..(next_id - 1)

Install(g) ==
    /\ ncalls < MaxCalls
    /\ g.next_id <= MaxHexes
    /\ ncalls' = ncalls + 1
    /\ tiles' = g.tiles
    /\ next_id' = g.next_id
    /\ hexes' = g.hexes
    /\ UNCHANGED <<bounds, terrain, ports, columns, spiral, intersections, tries,
                   variant, use_frame, args, calls, local, pc, err>>

CallStartHex == pc = "graph" /\ Install(StartHex(TheMap, FALSE))

CallGrowHex ==
    /\ pc = "graph"
    /\ \E tile \in Ids, angs \in AngleChoices : Install(GrowHex(TheMap, tile, angs, FALSE))

CallGrowMap ==
    /\ pc = "graph"
    /\ \E angs \in AngleChoices : Install(GrowMap(TheMap, angs, FALSE))

CallSurroundHex ==
    /\ pc = "graph"
    /\ \E tile \in Ids : Install(SurroundHex(TheMap, tile, FALSE))

CallSurroundMap == pc = "graph" /\ Install(SurroundMap(TheMap, FALSE))

CallJoinNeighbors ==
    /\ pc = "graph"
    /\ \E tile \in Ids : Install([TheMap EXCEPT !.tiles = JoinNeighbors(tiles, tile)])

CallDeleteNeighbors ==
    /\ pc = "graph"
    /\ \E tile \in Ids : Install([TheMap EXCEPT !.tiles = DeleteNeighbors(tiles, tile)])

NoArgs == [num |-> "", port |-> "", terr |-> "", validate |-> <<>>]

NoCalls == [set_terrain |-> 0, set_numbers |-> 0, set_ports |-> 0]

NoBounds == [top |-> 0, left |-> 0, right |-> 0, bottom |-> 0]

\* build's place (the statement, grow_map's copy of hexes, its index and
\* new_hexes) and arrange_spiral's angle
NoLocal == [stmt |-> 0, copy |-> <<>>, i |-> 1, new_hexes |-> <<>>, angle |-> 0]

\* HexMap.__init__ with the base build: an empty map
InitGraph ==
    /\ tiles = <<>>
    /\ next_id = 0
    /\ hexes = <<>>
    /\ bounds = NoBounds
    /\ terrain = <<>>
    /\ ports = <<>>
    /\ columns = <<>>
    /\ spiral = <<>>
    /\ intersections = {}
    /\ tries = 0
    /\ variant = "HexMap"
    /\ use_frame = FALSE
    /\ args = NoArgs
    /\ calls = NoCalls
    /\ ncalls = 0
    /\ local = NoLocal
    /\ pc = "graph"
    /\ err = ""

NextGraph ==
    \/ CallStartHex
    \/ CallGrowHex
    \/ CallGrowMap
    \/ CallSurroundHex
    \/ CallSurroundMap
    \/ CallJoinNeighbors
    \/ CallDeleteNeighbors

SpecGraph == InitGraph /\ [][NextGraph]_vars

\* ------------------------------------------------------------------ CatanMap
\* Class attributes.  The '' that ends CatanMap.begin_num is Blank.
Blank == -1

\* CatanMap.begin_num / Catan56Map.begin_num
begin_num(cls) ==
    IF cls = "CatanMap"
      THEN <<5, 6, 11, 5, 8, 10, 9, 2, 10, 12, 9, 8, 3, 4, 3, 4, 6, 11, Blank>>
      ELSE <<2, 5, 4, 6, 3, 9, 8, 11, 11, 10, 6, 3, 8, 4, 8, 10, 11, 12, 10, 5, 4,
             9, 5, 9, 12, 3, 2, 6>>

\* CatanMap.begin_terr / Catan56Map.begin_terr
begin_terr(cls) ==
    IF cls = "CatanMap"
      THEN <<"FRST", "PSTR", "DSRT", "MNTN", "HILLS", "HILLS", "FRST", "FIELD", "FIELD",
             "PSTR", "HILLS", "FRST", "FRST", "MNTN", "PSTR", "PSTR", "MNTN", "FIELD",
             "FIELD">>
      ELSE <<"FIELD", "HILLS", "FIELD", "MNTN", "MNTN", "HILLS", "PSTR", "FRST",
             "HILLS", "FIELD", "PSTR", "MNTN", "PSTR", "MNTN", "FRST", "FRST", "PSTR",
             "FIELD", "HILLS", "DSRT", "PSTR", "FIELD", "FRST", "HILLS", "DSRT", "FIELD",
             "FRST", "PSTR", "MNTN", "FRST">>

\* CatanMap.begin_port / Catan56Map.begin_port
begin_port(cls) ==
    IF cls = "CatanMap"
      THEN <<"ROCK", "ANY", "SHEEP", "ANY", "ANY", "BRICK", "WOOD", "ANY", "GRAIN">>
      ELSE <<"ANY", "ANY", "BRICK", "SHEEP", "WOOD", "ANY", "GRAIN", "ANY", "ROCK",
             "ANY", "SHEEP">>

\* CatanMap.standard_num / Catan56Map.standard_num
standard_num(cls) ==
    IF cls = "CatanMap"
      THEN <<5, 2, 6, 3, 8, 10, 9, 12, 11, 4, 8, 10, 9, 4, 5, 6, 3, 11>>
      ELSE <<2, 5, 4, 6, 3, 9, 8, 11, 11, 10, 6, 3, 8, 4, 8, 10, 11, 12, 10, 5, 4,
             9, 5, 9, 12, 3, 2, 6>>

\* Catan56Map.frame_ports (0-based indexes into the sorted port ring)
frame_ports == <<1, 4, 6, 7, 9, 11, 13, 14, 16, 19, 21>>

\* math.atan2(a.x, a.y) > math.atan2(b.x, b.y), decided exactly.  atan2(x, y) is
\* pi for x = 0, y < 0; in (0, pi) for x > 0; 0 for x = 0, y >= 0; in (-pi, 0)
\* for x < 0; within x > 0 and within x < 0 it falls as y / x grows.
AtanClass(a) ==
    IF a.x = 0 /\ a.y < 0 THEN 0 ELSE IF a.x > 0 THEN 1 ELSE IF a.x = 0 THEN 2 ELSE 3

AtanGreater(a, b) ==
    \/ AtanClass(a) < AtanClass(b)
    \/ /\ AtanClass(a) = AtanClass(b)
       /\ a.x # 0
       /\ a.y * b.x < b.y * a.x

\* list.sort(key = atan2(tile.x, tile.y), reverse = True): a stable sort, so the
\* tiles before list[i] in the result are those with a greater key and those
\* with an equal key that come before it in list
SortedBefore(T, list, j, i) ==
    \/ AtanGreater(T[list[j]], T[list[i]])
    \/ j < i /\ ~AtanGreater(T[list[i]], T[list[j]])

SortPorts(T, list) ==
    [k \in 1..Len(list) |->
        list[CHOOSE i \in 1..Len(list) :
                Cardinality({j \in 1..Len(list) : SortedBefore(T, list, j, i)}) = k - 1]]

\* the port ring kept whole
EveryOne(list) == list

\* ports[1::2]
EveryOther(list) == [k \in 1..(Len(list) \div 2) |-> list[2 * k]]

\* [self.ports[index] for index in self.frame_ports]; an index past the end
\* raises IndexError
FramePorts(list) == [k \in 1..Len(frame_ports) |-> list[frame_ports[k] + 1]]

\* The statements of build that grow the map, after start_hex: what is grown
\* ("hex": the start hex, "map": every hex), the angles and the hex_params.
GrowStatement(on, angs, hex_params) == [on |-> on, angs |-> angs, port |-> hex_params]

\* CatanMap.build: surround_hex(start), surround_map(), surround_map(port)
BuildCatan ==
    <<GrowStatement("hex", angles, FALSE), GrowStatement("map", angles, FALSE),
      GrowStatement("map", angles, TRUE)>>

\* Catan56Map.build: grow_map((120,)), grow_map((180,)), surround_map() twice,
\* surround_map(port)
Build56 ==
    <<GrowStatement("map", <<120>>, FALSE), GrowStatement("map", <<180>>, FALSE),
      GrowStatement("map", angles, FALSE), GrowStatement("map", angles, FALSE),
      GrowStatement("map", angles, TRUE)>>

\* the build method of the map's class
Build(cls) == IF cls = "CatanMap" THEN BuildCatan ELSE Build56

\* the end of build: the sorted port ring thinned out, every other port or the
\* frame's indexes
SelectPorts(cls, frame, sorted) ==
    IF cls = "Catan56Map" /\ frame THEN FramePorts(sorted) ELSE EveryOther(sorted)

Min(a, b) == IF a < b THEN a ELSE b

\* HexMap._explore: the least and greatest coordinates, of the origin too
\* (top and bottom in half units)
Explore(T, list) ==
    LET xs == {0} \cup {T[list[i]].x : i \in 1..Len(list)}
        ys == {0} \cup {T[list[i]].y : i \in 1..Len(list)}
    IN  [left   |-> CHOOSE v \in xs : \A w \in xs : v <= w,
         right  |-> CHOOSE v \in xs : \A w \in xs : v >= w,
         top    |-> CHOOSE v \in ys : \A w \in ys : v <= w,
         bottom |-> CHOOSE v \in ys : \A w \in ys : v >= w]

\* the first of the angles in which tile has a neighbor that is not a port, or
\* None: the for loop of the searches for the top-most and bottom-most hex
RECURSIVE FirstOpen(_, _, _, _)
FirstOpen(T, tile, angs, i) ==
    IF i > Len(angs) THEN None
    ELSE LET next == T[tile].neighbors[angs[i]]
         IN  IF next # None /\ ~T[next].port THEN next
             ELSE FirstOpen(T, tile, angs, i + 1)

\* the while loop of those searches: follow FirstOpen until there is none
RECURSIVE Farthest(_, _, _)
Farthest(T, tile, angs) ==
    LET next == FirstOpen(T, tile, angs, 1)
    IN  IF next = None THEN tile ELSE Farthest(T, next, angs)

\* arrange_columns: the loop that extends the top hexes to the right and left
RECURSIVE Toppers(_, _, _, _)
Toppers(T, right, left, toppers) ==
    LET r  == T[right].neighbors[120]
        t1 == IF r # None THEN Append(toppers, r) ELSE toppers
        l  == T[left].neighbors[240]
        t2 == IF l # None THEN Append(t1, l) ELSE t1
    IN  IF r = None /\ l = None THEN toppers
        ELSE Toppers(T, IF r # None THEN r ELSE right, IF l # None THEN l ELSE left, t2)

\* arrange_columns: one column, down from its last tile
RECURSIVE Down(_, _)
Down(T, cols) ==
    LET lower == T[cols[Len(cols)]].neighbors[180]
    IN  IF lower = None \/ T[lower].port THEN cols ELSE Down(T, Append(cols, lower))

RECURSIVE ColumnsFrom(_, _, _, _)
ColumnsFrom(T, toppers, i, cols) ==
    IF i > Len(toppers) THEN cols
    ELSE ColumnsFrom(T, toppers, i + 1, Down(T, Append(cols, toppers[i])))

\* CatanMap.arrange_columns; a missing neighbor of the top hex at 120 or 240
\* raises AttributeError in the loop that follows
ArrangeColumns(T, list) ==
    LET top   == Farthest(T, list[1], <<0, 60, 300>>)
        left  == T[top].neighbors[240]
        right == T[top].neighbors[120]
    IN  IF left = None \/ right = None
          THEN [err |-> "AttributeError", columns |-> <<>>]
          ELSE [err |-> "",
                columns |-> ColumnsFrom(T, Toppers(T, right, left, <<top, right, left>>),
                                        1, <<>>)]

InSeq(e, seq) == \E k \in 1..Len(seq) : seq[k] = e

\* arrange_spiral's test without "target in self.spiral"
SpiralBlockedUnseen(T, sp, target) == target = None \/ T[target].port

\* arrange_spiral: target is None or target in self.spiral or target.port
SpiralBlocked(T, sp, target) == target = None \/ InSeq(target, sp) \/ T[target].port

\* arrange_spiral's inner loop giving up after one turn
SpiralTurnOnce(T, sp, angle, start_angle) ==
    IF SpiralBlocked(T, sp, T[sp[Len(sp)]].neighbors[angle])
      THEN IF SpiralBlocked(T, sp, T[sp[Len(sp)]].neighbors[(angle + 300) % 360])
             THEN None
             ELSE (angle + 300) % 360
      ELSE angle

\* arrange_spiral: the inner while loop; the angle to go on with, or None when
\* the turning comes back to start_angle (the ValueError)
RECURSIVE SpiralTurn(_, _, _, _)
SpiralTurn(T, sp, angle, start_angle) ==
    IF SpiralBlocked(T, sp, T[sp[Len(sp)]].neighbors[angle])
      THEN LET turned == (angle + 300) % 360
           IN  IF turned = start_angle THEN None
               ELSE SpiralTurn(T, sp, turned, start_angle)
      ELSE angle

\* arrange_spiral: the bottom-most hex, where the spiral starts
SpiralStart(T, list) == Farthest(T, list[1], <<180, 120, 240>>)

\* inter.sort(key = id), for the up to three tiles of an intersection
RECURSIVE InsertById(_, _)
InsertById(sorted, tile) ==
    IF sorted = <<>> THEN <<tile>>
    ELSE IF tile < sorted[Len(sorted)]
           THEN Append(InsertById(SubSeq(sorted, 1, Len(sorted) - 1), tile),
                       sorted[Len(sorted)])
           ELSE Append(sorted, tile)

RECURSIVE SortById(_)
SortById(inter) ==
    IF inter = <<>> THEN <<>>
    ELSE InsertById(SortById(SubSeq(inter, 1, Len(inter) - 1)), inter[Len(inter)])

\* arrange_intersections' test without "not possible.port"
PossibleAny(T, possible) == possible # None

\* arrange_intersections: whether a neighbor joins the intersection
Possible(T, possible) == possible # None /\ ~T[possible].port

\* arrange_intersections: the tuple made for tile and turn
Intersection(T, tile, turn) ==
    LET p1 == T[tile].neighbors[turn]
        p2 == T[tile].neighbors[(60 + turn) % 360]
    IN  SortById(<<tile>> \o (IF Possible(T, p1) THEN <<p1>> ELSE <<>>)
                          \o (IF Possible(T, p2) THEN <<p2>> ELSE <<>>))

\* CatanMap.arrange_intersections
ArrangeIntersections(T, terr) ==
    {Intersection(T, terr[i], turn) : i \in 1..Len(terr), turn \in AngleSet}

\* ------------------------------------------------------------------ layout

\* PORT_TO_TERR
PORT_TO_TERR ==
    [p \in {"BRICK", "GRAIN", "ROCK", "SHEEP", "WOOD"} |->
        CASE p = "BRICK" -> "HILL"
          [] p = "GRAIN" -> "FIELD"
          [] p = "ROCK"  -> "MNTN"
          [] p = "SHEEP" -> "PSTR"
          [] p = "WOOD"  -> "FRST"]

\* TERR_TO_PORT
TERR_TO_PORT ==
    [t \in {"FIELD", "FRST", "HILLS", "MNTN", "PSTR"} |->
        CASE t = "FIELD" -> "GRAIN"
          [] t = "FRST"  -> "WOOD"
          [] t = "HILLS" -> "BRICK"
          [] t = "MNTN"  -> "ROCK"
          [] t = "PSTR"  -> "SHEEP"]

\* list[k:] + list[:k]
Rotate(list, k) == [i \in 1..Len(list) |-> list[((i - 1 + k) % Len(list)) + 1]]

\* random.shuffle(list) leaves any permutation; the model draws from the
\* rotations by 0..MaxShift
Shuffle(list) == {Rotate(list, k) : k \in 0..Min(MaxShift, Len(list) - 1)}

\* the list a setter lays out: the canonical one, shuffled when asked
Ordered(list, order) == IF order = "shuffle" THEN Shuffle(list) ELSE {list}

\* for tile, terr in zip(tile_list, values): tile.terr = terr; a tile listed
\* twice keeps the later value
ZipTerr(T, tile_list, values) ==
    LET n == Min(Len(tile_list), Len(values))
        last(t) == CHOOSE i \in 1..n :
                       tile_list[i] = t /\ \A j \in (i + 1)..n : tile_list[j] # t
    IN  [t \in DOMAIN T |->
            IF \E i \in 1..n : tile_list[i] = t
              THEN [T[t] EXCEPT !.terr = values[last(t)]]
              ELSE T[t]]

\* set_terrain zipping from the second tile of the columns on
SetTerrainSkip(T, cols, rezes) == ZipTerr(T, SubSeq(cols, 2, Len(cols)), rezes)

\* CatanMap.set_terrain with rezes as shuffled
SetTerrain(T, cols, rezes) == ZipTerr(T, cols, rezes)

\* CatanMap.set_ports with ports as shuffled
SetPorts(T, port_tiles, port_list) == ZipTerr(T, port_tiles, port_list)

\* CatanHex.num setter: _num first, then pips, which raises TypeError for ''
SetNum(T, tile, value) ==
    IF value = Blank
      THEN [T EXCEPT ![tile].num = value]
      ELSE [T EXCEPT ![tile].num = value, ![tile].pips = PipsOf(value)]

\* set_numbers without "tile.num = 0": a desert keeps the number it has
DesertKeep(T, tile) == T

\* set_numbers: tile.num = 0, for a desert
DesertNum(T, tile) == SetNum(T, tile, 0)

\* set_numbers: the while loop, at the i-th tile of the spiral and the j-th
\* number; running out of either ends it
RECURSIVE NumbersLoop(_, _, _, _, _)
NumbersLoop(T, sp, numbers, i, j) ==
    CASE i > Len(sp) -> [tiles |-> T, err |-> ""]
      [] i <= Len(sp) /\ T[sp[i]].terr = "DSRT" ->
            NumbersLoop(DesertNum(T, sp[i]), sp, numbers, i + 1, j)
      [] i <= Len(sp) /\ T[sp[i]].terr # "DSRT" /\ j > Len(numbers) ->
            [tiles |-> T, err |-> ""]
      [] i <= Len(sp) /\ T[sp[i]].terr # "DSRT" /\ j <= Len(numbers) /\ numbers[j] = Blank ->
            [tiles |-> SetNum(T, sp[i], numbers[j]), err |-> "TypeError"]
      [] i <= Len(sp) /\ T[sp[i]].terr # "DSRT" /\ j <= Len(numbers) /\ numbers[j] # Blank ->
            NumbersLoop(SetNum(T, sp[i], numbers[j]), sp, numbers, i + 1, j + 1)

\* the canonical number list of a mode: begin_num for 'beginner', else standard_num
NumberList(cls, order) == IF order = "beginner" THEN begin_num(cls) ELSE standard_num(cls)

\* CatanMap.set_numbers with numbers as shuffled
SetNumbers(T, sp, numbers) == NumbersLoop(T, sp, numbers, 1, 1)

\* ------------------------------------------------------------------ validators
\* A board as the validators read it.
Catan == [tiles |-> tiles, hexes |-> hexes, terrain |-> terrain, ports |-> ports,
          intersections |-> intersections]

\* the neighbors of a tile that are there
Adjacent(catan, tile) ==
    {catan.tiles[tile].neighbors[a] : a \in AngleSet} \ {None}

Elems(seq) == {seq[k] : k \in 1..Len(seq)}

\* sum(tile.pips for tile in settle), from the i-th tile on
RECURSIVE SumPips(_, _, _)
SumPips(T, settle, i) ==
    IF i > Len(settle) THEN 0 ELSE T[settle[i]].pips + SumPips(T, settle, i + 1)

\* max_pip.mp_criteria
mp_criteria(catan, n) ==
    \A settle \in catan.intersections : ~(SumPips(catan.tiles, settle, 1) > n)

\* max_port_pips.mpp_criteria: the pips counted for one port
RECURSIVE PortPips(_, _, _)
PortPips(catan, port, i) ==
    IF i > Len(angles) THEN 0
    ELSE LET tile == catan.tiles[port].neighbors[angles[i]]
         IN  (IF tile # None /\ catan.tiles[tile].terr = PORT_TO_TERR[catan.tiles[port].terr]
                THEN catan.tiles[tile].num ELSE 0)
             + PortPips(catan, port, i + 1)

\* max_port_pips.mpp_criteria from the i-th port on: "True", "False", or
\* "KeyError" for a port whose label PORT_TO_TERR does not hold
RECURSIVE mpp_from(_, _, _)
mpp_from(catan, n, i) ==
    IF i > Len(catan.ports) THEN "True"
    ELSE LET port == catan.ports[i]
             label == catan.tiles[port].terr
         IN  IF label = "ANY" THEN mpp_from(catan, n, i + 1)
             ELSE IF label \notin DOMAIN PORT_TO_TERR /\ Adjacent(catan, port) # {}
               THEN "KeyError"
             ELSE IF label \in DOMAIN PORT_TO_TERR /\ PortPips(catan, port, 1) > n
               THEN "False"
             ELSE mpp_from(catan, n, i + 1)

mpp_criteria(catan, n) == mpp_from(catan, n, 1)

\* no_6_8.n68_criteria
n68_criteria(catan) ==
    \A tile \in Elems(catan.hexes) : \A adj \in Adjacent(catan, tile) :
        ~(catan.tiles[tile].num \in {6, 8} /\ catan.tiles[adj].num \in {6, 8})

\* no_num_pairs.nmp_criteria
nmp_criteria(catan) ==
    \A tile \in Elems(catan.terrain) : \A adj \in Adjacent(catan, tile) :
        catan.tiles[tile].num # catan.tiles[adj].num

\* no_terr_pairs.nrp_criteria
nrp_criteria(catan) ==
    \A tile \in Elems(catan.hexes) : \A adj \in Adjacent(catan, tile) :
        catan.tiles[tile].terr # catan.tiles[adj].terr

\* regions.reg_criteria
reg_criteria(catan, ignore) ==
    \A tile \in Elems(catan.hexes) :
        \/ catan.tiles[tile].terr \in ignore
        \/ \E adj \in Adjacent(catan, tile) : catan.tiles[tile].terr = catan.tiles[adj].terr

\* A call of a validator factory: its name and arguments.
FactoryCall(f, n, ignore) == [f |-> f, n |-> n, ignore |-> ignore]

\* the value a factory without a return statement gives
NoneFn == FactoryCall("None", 0, {})

\* What calling the factory does: no_2_12 returns the undefined name
\* n68_criteria (NameError); good_rock and no_double_6_8 define their criteria
\* and return nothing; the others return their criteria.
Factory(c) ==
    IF c.f = "no_2_12" THEN [raised |-> "NameError", value |-> NoneFn]
    ELSE IF c.f \in {"good_rock", "no_double_6_8"} THEN [raised |-> "", value |-> NoneFn]
    ELSE [raised |-> "", value |-> c]

Bool(b) == IF b THEN "True" ELSE "False"

\* validator(self) in layout: "True", "False" or the exception raised.  None is
\* not callable, and no_terr_tri's nrt_criteria takes no argument.
Call(v, catan) ==
    CASE v.f = "None"          -> "TypeError"
      [] v.f = "no_terr_tri"   -> "TypeError"
      [] v.f = "max_pip"       -> Bool(mp_criteria(catan, v.n))
      [] v.f = "max_port_pips" -> mpp_criteria(catan, v.n)
      [] v.f = "no_6_8"        -> Bool(n68_criteria(catan))
      [] v.f = "no_num_pairs"  -> Bool(nmp_criteria(catan))
      [] v.f = "no_terr_pairs" -> Bool(nrp_criteria(catan))
      [] v.f = "regions"       -> Bool(reg_criteria(catan, v.ignore))

\* layout: the for loop over validate with its break and else, from the i-th
\* validator: "accept" (the else), "reject" (the break), or the exception
RECURSIVE ValidateFrom(_, _, _)
ValidateFrom(catan, validate, i) ==
    IF i > Len(validate) THEN "accept"
    ELSE LET r == Call(validate[i], catan)
         IN  IF r = "True" THEN ValidateFrom(catan, validate, i + 1)
             ELSE IF r = "False" THEN "reject"
             ELSE r

\* the for loop over validate stopping after its first validator
ValidationFirst(catan, validate) ==
    ValidateFrom(catan, IF validate = <<>> THEN <<>> ELSE <<validate[1]>>, 1)

\* the for loop over validate with a cap on the tries: the second pass is taken
\* as it is
ValidationCapped(catan, validate) ==
    IF tries >= 2 THEN "accept" ELSE ValidateFrom(catan, validate, 1)

Validation(catan, validate) == ValidateFrom(catan, validate, 1)

\* self.tries = 1 whatever validate is
FirstTriesOne(validate) == 1

\* layout: self.tries before the loop
FirstTries(validate) == IF validate # <<>> THEN 1 ELSE 0

\* ------------------------------------------------------------------ the program
\* A map is constructed (build, _explore, arrange), then layout is called once
\* with some modes and validators and runs pass by pass.

Variants == {<<"CatanMap", FALSE>>, <<"Catan56Map", FALSE>>, <<"Catan56Map", TRUE>>}

NumModes == {"beginner", "standard", "shuffle"}

PortModes == {"beginner", "shuffle"}

TerrModes == {"beginner", "shuffle"}

Terrains == {"DSRT", "FIELD", "FRST", "HILLS", "MNTN", "PSTR"}

\* the ignore arguments regions is given (the first is its default)
IgnoreChoices == {{"DSRT"}, {"DSRT", "FRST", "HILLS", "MNTN"}, Terrains}

\* the n arguments max_port_pips is given (the first is its default)
PortPipChoices == {3, 6}

\* the factory calls a validate tuple is made of
FactoryCalls ==
    {FactoryCall("good_rock", 4, {}), FactoryCall("max_pip", 11, {}),
     FactoryCall("no_2_12", 0, {}), FactoryCall("no_6_8", 0, {}),
     FactoryCall("no_double_6_8", 0, {}), FactoryCall("no_num_pairs", 0, {}),
     FactoryCall("no_terr_pairs", 0, {}), FactoryCall("no_terr_tri", 0, {})}
    \cup {FactoryCall("max_port_pips", n, {}) : n \in PortPipChoices}
    \cup {FactoryCall("regions", 0, ig) : ig \in IgnoreChoices}

ValidateTuples == UNION {[1..k -> FactoryCalls] : k \in 0..MaxValidators}

\* validate = (), (no_6_8(),), (no_terr_pairs(),) and (good_rock(),)
FewTuples ==
    {<<>>, <<FactoryCall("no_6_8", 0, {})>>, <<FactoryCall("no_terr_pairs", 0, {})>>,
     <<FactoryCall("good_rock", 4, {})>>}

Init ==
    /\ tiles = <<>>
    /\ next_id = 0
    /\ hexes = <<>>
    /\ bounds = NoBounds
    /\ terrain = <<>>
    /\ ports = <<>>
    /\ columns = <<>>
    /\ spiral = <<>>
    /\ intersections = {}
    /\ tries = 0
    /\ \E v \in Variants : variant = v[1] /\ use_frame = v[2]
    /\ args = NoArgs
    /\ calls = NoCalls
    /\ ncalls = 0
    /\ local = NoLocal
    /\ pc = "new"
    /\ err = ""

\* HexMap.__init__ calls build: start = self.start_hex(CatanHex)
BuildStart ==
    /\ pc = "new"
    /\ LET g == StartHex(TheMap, FALSE)
       IN  /\ tiles' = g.tiles
           /\ next_id' = g.next_id
           /\ hexes' = g.hexes
    /\ local' = NoLocal
    /\ pc' = "build"
    /\ UNCHANGED <<bounds, terrain, ports, columns, spiral, intersections, tries,
                   variant, use_frame, args, calls, ncalls, err>>

\* build: the next growing statement starts: grow_map copies self.hexes, and
\* before the port ring Catan56Map reads start.neighbors[0].neighbors[0]
\* and both set self.terrain = self.hexes[:]
BuildNext ==
    /\ pc = "build"
    /\ local.i > Len(local.copy)
    /\ local.stmt < Len(Build(variant))
    /\ LET st == Build(variant)[local.stmt + 1]
       IN  IF st.port /\ variant = "Catan56Map" /\ tiles[hexes[1]].neighbors[0] = None
             THEN /\ pc' = "error"
                  /\ err' = "AttributeError"
                  /\ UNCHANGED <<terrain, local>>
             ELSE /\ terrain' = IF st.port THEN hexes ELSE terrain
                  /\ local' = [local EXCEPT !.stmt = @ + 1,
                                            !.copy = IF st.on = "hex" THEN <<hexes[1]>> ELSE hexes,
                                            !.i = 1,
                                            !.new_hexes = <<>>]
                  /\ UNCHANGED <<pc, err>>
    /\ UNCHANGED <<tiles, next_id, hexes, bounds, ports, columns, spiral, intersections,
                   tries, variant, use_frame, args, calls, ncalls>>

\* build: one round of grow_map's loop (or surround_hex's one call): grow_hex
BuildGrow ==
    /\ pc = "build"
    /\ local.i <= Len(local.copy)
    /\ LET st == Build(variant)[local.stmt]
           g  == GrowHex(TheMap, local.copy[local.i], st.angs, st.port)
       IN  /\ tiles' = g.tiles
           /\ next_id' = g.next_id
           /\ hexes' = g.hexes
           /\ local' = [local EXCEPT !.i = @ + 1, !.new_hexes = @ \o g.new_hexes]
    /\ UNCHANGED <<bounds, terrain, ports, columns, spiral, intersections, tries,
                   variant, use_frame, args, calls, ncalls, pc, err>>

\* build: the port ring is sorted and thinned out, and the hexes are the terrain
\* and the ports kept
BuildEnd ==
    /\ pc = "build"
    /\ local.i > Len(local.copy)
    /\ local.stmt = Len(Build(variant))
    /\ LET sorted == SortPorts(tiles, local.new_hexes)
       IN  IF variant = "Catan56Map" /\ use_frame
              /\ Len(sorted) <= frame_ports[Len(frame_ports)]
             THEN /\ ports' = sorted
                  /\ pc' = "error"
                  /\ err' = "IndexError"
                  /\ UNCHANGED hexes
             ELSE /\ ports' = SelectPorts(variant, use_frame, sorted)
                  /\ hexes' = terrain \o ports'
                  /\ pc' = "_explore"
                  /\ UNCHANGED err
    /\ UNCHANGED <<tiles, next_id, bounds, terrain, columns, spiral, intersections,
                   tries, variant, use_frame, args, calls, ncalls, local>>

\* HexMap.__init__ calls _explore
ExploreMap ==
    /\ pc = "_explore"
    /\ bounds' = Explore(tiles, hexes)
    /\ pc' = "arrange_columns"
    /\ UNCHANGED <<tiles, next_id, hexes, terrain, ports, columns, spiral, intersections,
                   tries, variant, use_frame, args, calls, ncalls, local, err>>

\* arrange calls arrange_columns and arrange_spiral gets to its loop
ArrangeStart ==
    /\ pc = "arrange_columns"
    /\ LET cols == ArrangeColumns(tiles, hexes)
       IN  IF cols.err # ""
             THEN /\ pc' = "error"
                  /\ err' = cols.err
                  /\ UNCHANGED <<columns, spiral, local>>
             ELSE /\ columns' = cols.columns
                  /\ spiral' = <<SpiralStart(tiles, hexes)>>
                  /\ local' = [local EXCEPT !.angle = 60]
                  /\ pc' = "arrange_spiral"
                  /\ UNCHANGED err
    /\ UNCHANGED <<tiles, next_id, hexes, bounds, terrain, ports, intersections, tries,
                   variant, use_frame, args, calls, ncalls>>

\* arrange_spiral: one round of the outer while loop: turn until a hex is free
\* and append it, or raise ValueError
SpiralStep ==
    /\ pc = "arrange_spiral"
    /\ Len(spiral) < Len(terrain)
    /\ LET next == SpiralTurn(tiles, spiral, local.angle, local.angle)
       IN  IF next = None
             THEN /\ pc' = "error"
                  /\ err' = "ValueError"
                  /\ UNCHANGED <<spiral, local>>
             ELSE /\ spiral' = Append(spiral, tiles[spiral[Len(spiral)]].neighbors[next])
                  /\ local' = [local EXCEPT !.angle = next]
                  /\ UNCHANGED <<pc, err>>
    /\ UNCHANGED <<tiles, next_id, hexes, bounds, terrain, ports, columns, intersections,
                   tries, variant, use_frame, args, calls, ncalls>>

\* arrange_spiral's loop ends and arrange calls arrange_intersections
ArrangeEnd ==
    /\ pc = "arrange_spiral"
    /\ Len(spiral) >= Len(terrain)
    /\ intersections' = ArrangeIntersections(tiles, terrain)
    /\ pc' = "ready"
    /\ UNCHANGED <<tiles, next_id, hexes, bounds, terrain, ports, columns, spiral, tries,
                   variant, use_frame, args, calls, ncalls, local, err>>

\* board.layout(num, port, terr, validate = (f1(...), ...)): the factories are
\* called first, then layout starts
LayoutCall(tuples) ==
    /\ pc = "ready"
    /\ \E num \in NumModes, port \in PortModes, terr \in TerrModes, made \in tuples :
        LET raised == {k \in 1..Len(made) : Factory(made[k]).raised # ""}
        IN  IF raised # {}
              THEN /\ pc' = "error"
                   /\ err' = "NameError"
                   /\ UNCHANGED <<args, tries, calls>>
              ELSE /\ args' = [num |-> num, port |-> port, terr |-> terr,
                               validate |-> [k \in 1..Len(made) |-> Factory(made[k]).value]]
                   /\ tries' = FirstTries(args'.validate)
                   /\ calls' = NoCalls
                   /\ pc' = "set_terrain"
                   /\ err' = ""
    /\ UNCHANGED <<tiles, next_id, hexes, bounds, terrain, ports, columns, spiral,
                   intersections, variant, use_frame, ncalls, local>>

\* layout called with any of the validate tuples
Layout == LayoutCall(ValidateTuples)

\* layout called with no validator or with one of a few
LayoutFew == LayoutCall(FewTuples)

\* layout: self.set_terrain(terr)
LayoutTerrain ==
    /\ pc = "set_terrain"
    /\ \E rezes \in Ordered(begin_terr(variant), args.terr) :
        tiles' = SetTerrain(tiles, columns, rezes)
    /\ calls' = [calls EXCEPT !.set_terrain = @ + 1]
    /\ pc' = "set_numbers"
    /\ UNCHANGED <<next_id, hexes, bounds, terrain, ports, columns, spiral,
                   intersections, tries, variant, use_frame, args, ncalls, local, err>>

\* layout: self.set_numbers(num)
LayoutNumbers ==
    /\ pc = "set_numbers"
    /\ \E numbers \in Ordered(NumberList(variant, args.num), args.num) :
        LET r == SetNumbers(tiles, spiral, numbers)
        IN  /\ tiles' = r.tiles
            /\ err' = r.err
            /\ pc' = IF r.err = "" THEN "set_ports" ELSE "error"
    /\ calls' = [calls EXCEPT !.set_numbers = @ + 1]
    /\ UNCHANGED <<next_id, hexes, bounds, terrain, ports, columns, spiral,
                   intersections, tries, variant, use_frame, args, ncalls, local>>

\* layout: self.set_ports(port)
LayoutPorts ==
    /\ pc = "set_ports"
    /\ \E port_list \in Ordered(begin_port(variant), args.port) :
        tiles' = SetPorts(tiles, ports, port_list)
    /\ calls' = [calls EXCEPT !.set_ports = @ + 1]
    /\ pc' = "validate"
    /\ UNCHANGED <<next_id, hexes, bounds, terrain, ports, columns, spiral,
                   intersections, tries, variant, use_frame, args, ncalls, local, err>>

\* layout: every validator passed (the for loop's else): the loop ends
LayoutAccept ==
    /\ pc = "validate"
    /\ Validation(Catan, args.validate) = "accept"
    /\ pc' = "done"
    /\ UNCHANGED <<tiles, next_id, hexes, bounds, terrain, ports, columns, spiral,
                   intersections, tries, variant, use_frame, args, calls, ncalls, local, err>>

\* layout: a validator returned false: self.tries += 1 and the next pass
LayoutReject ==
    /\ pc = "validate"
    /\ Validation(Catan, args.validate) = "reject"
    /\ tries < MaxTries
    /\ tries' = tries + 1
    /\ pc' = "set_terrain"
    /\ UNCHANGED <<tiles, next_id, hexes, bounds, terrain, ports, columns, spiral,
                   intersections, variant, use_frame, args, calls, ncalls, local, err>>

\* layout: calling a validator raised
LayoutRaise ==
    /\ pc = "validate"
    /\ Validation(Catan, args.validate) \notin {"accept", "reject"}
    /\ err' = Validation(Catan, args.validate)
    /\ pc' = "error"
    /\ UNCHANGED <<tiles, next_id, hexes, bounds, terrain, ports, columns, spiral,
                   intersections, tries, variant, use_frame, args, calls, ncalls, local>>

Next ==
    \/ BuildStart
    \/ BuildNext
    \/ BuildGrow
    \/ BuildEnd
    \/ ExploreMap
    \/ ArrangeStart
    \/ SpiralStep
    \/ ArrangeEnd
    \/ Layout
    \/ LayoutTerrain
    \/ LayoutNumbers
    \/ LayoutPorts
    \/ LayoutAccept
    \/ LayoutReject
    \/ LayoutRaise

Spec == Init /\ [][Next]_vars

\* The program with layout called with few validators, and layout running on:
\* no statement of its loop is put off forever.
NextFew ==
    \/ BuildStart
    \/ BuildNext
    \/ BuildGrow
    \/ BuildEnd
    \/ ExploreMap
    \/ ArrangeStart
    \/ SpiralStep
    \/ ArrangeEnd
    \/ LayoutFew
    \/ LayoutTerrain
    \/ LayoutNumbers
    \/ LayoutPorts
    \/ LayoutAccept
    \/ LayoutReject
    \/ LayoutRaise

\* a statement of layout's loop
LayoutStep ==
    \/ LayoutTerrain
    \/ LayoutNumbers
    \/ LayoutPorts
    \/ LayoutAccept
    \/ LayoutReject
    \/ LayoutRaise

FairSpec == Init /\ [][NextFew]_vars /\ WF_vars(LayoutStep)

\* ------------------------------------------------------------------ arranging any graph
\* CatanMap arranged on the graphs its build makes and on the graphs of the free
\* graph building, as a subclass overriding the first statements of build
\* gives them.

\* build from its line "self.terrain = self.hexes[:]" on, after any graph
\* building: the graph is the terrain, the port ring is grown around it (or
\* the statement is left out), sorted and thinned out, and the hexes are the
\* terrain and the ports kept; it counts as one of the MaxCalls calls
BuildFree ==
    /\ pc = "graph"
    /\ hexes # <<>>
    /\ ncalls < MaxCalls
    /\ ncalls' = ncalls + 1
    /\ \E ring \in BOOLEAN :
        LET g == IF ring THEN SurroundMap(TheMap, TRUE) ELSE TheMap
        IN  /\ tiles' = g.tiles
            /\ next_id' = g.next_id
            /\ terrain' = hexes
            /\ ports' = EveryOther(SortPorts(g.tiles, g.new_hexes))
            /\ hexes' = terrain' \o ports'
    /\ pc' = "_explore"
    /\ UNCHANGED <<bounds, columns, spiral, intersections, tries, variant, use_frame,
                   args, calls, local, err>>

InitArrange == Init \/ InitGraph

NextArrange ==
    \/ CallStartHex
    \/ CallGrowHex
    \/ CallGrowMap
    \/ CallSurroundHex
    \/ CallSurroundMap
    \/ CallJoinNeighbors
    \/ CallDeleteNeighbors
    \/ BuildFree
    \/ BuildStart
    \/ BuildNext
    \/ BuildGrow
    \/ BuildEnd
    \/ ExploreMap
    \/ ArrangeStart
    \/ SpiralStep
    \/ ArrangeEnd

SpecArrange == InitArrange /\ [][NextArrange]_vars

\* arrange_spiral runs on: no round of its loop is put off forever
FairArrange == SpecArrange /\ WF_vars(SpiralStep \/ ArrangeEnd)

\* ------------------------------------------------------------------ properties

\* C1: adjacency is mutual in every reachable state: for every tile T and angle
\* a, if T.neighbors[a] is U then U.neighbors[(a + 180) mod 360] is T.
MutualAdjacency ==
    \A t \in Ids : \A a \in AngleSet :
        LET u == tiles[t].neighbors[a]
        IN  u # None => tiles[u].neighbors[(a + 180) % 360] = t

\* the stages at which the map is constructed and arranged
Constructed == pc \in {"ready", "set_terrain", "set_numbers", "set_ports", "validate", "done"}

\* the number of terrain tiles of a variant
TerrainCount == IF variant = "CatanMap" THEN 19 ELSE 30

Distinct(seq) == \A i, j \in 1..Len(seq) : i # j => seq[i] # seq[j]

\* C2: construction of each variant raises no error, and once it is done the
\* spiral has as many entries as there are terrain tiles (19 or 30), all
\* distinct, none a port: it is the terrain tiles, each once.
SpiralComplete ==
    /\ err \notin {"ValueError", "AttributeError", "IndexError"}
    /\ Constructed =>
        /\ Len(terrain) = TerrainCount
        /\ Len(spiral) = Len(terrain)
        /\ Distinct(spiral)
        /\ \A k \in 1..Len(spiral) : ~tiles[spiral[k]].port
        /\ Elems(spiral) = Elems(terrain)

\* C2 witness: a 30-tile board with the frame is constructed, its spiral made
SpiralCompleteWitness ==
    /\ pc = "ready"
    /\ variant = "Catan56Map"
    /\ use_frame
    /\ Len(spiral) = 30

Neighbours(T, a, b) == \E ang \in AngleSet : T[a].neighbors[ang] = b

\* what holds of every group of the intersections whatever its size: distinct
\* terrain tiles that are no ports, pairwise neighbours, in ascending id order
GroupShape(group) ==
    /\ \A k \in 1..Len(group) : group[k] \in Elems(terrain) /\ ~tiles[group[k]].port
    /\ \A i, j \in 1..Len(group) : i # j => Neighbours(tiles, group[i], group[j])
    /\ \A i, j \in 1..Len(group) : i < j => group[i] < group[j]

\* C3 as amended: after construction every group of the intersections has size
\* 1, 2 or 3, is made of distinct non-port terrain tiles that are pairwise
\* neighbours, and is in ascending tile-id order.
IntersectionsShape ==
    Constructed =>
        /\ intersections # {}
        /\ \A group \in intersections : Len(group) \in {1, 2, 3} /\ GroupShape(group)

\* C3 witness: the intersections are made, with a group of one tile (a corner
\* of the coast) and a group of three
IntersectionsWitness ==
    /\ pc = "ready"
    /\ \E group \in intersections : Len(group) = 1
    /\ \E group \in intersections : Len(group) = 3

\* C3 as stated: after construction every group of the intersections has size 2
\* or 3, is made of distinct non-port terrain tiles that are pairwise
\* neighbours, and is in ascending tile-id order.
IntersectionsTwoOrThree ==
    Constructed =>
        \A group \in intersections : Len(group) \in {2, 3} /\ GroupShape(group)

\* the stages of a layout called with no validators
EmptyLayout ==
    /\ pc \in {"set_terrain", "set_numbers", "set_ports", "validate", "done"}
    /\ args.validate = <<>>

\* one assignment pass and no more: each setter ran at most once, in order,
\* and all three have run when the validators are reached
OnePass ==
    /\ calls.set_terrain = (IF pc = "set_terrain" THEN 0 ELSE 1)
    /\ calls.set_numbers = (IF pc \in {"set_terrain", "set_numbers"} THEN 0 ELSE 1)
    /\ calls.set_ports = (IF pc \in {"validate", "done"} THEN 1 ELSE 0)
    /\ pc = "validate" => Validation(Catan, args.validate) = "accept"

\* C4 as amended: layout called with no validators ends after exactly one
\* assignment pass (one set_terrain, one set_numbers, one set_ports), and the
\* trial count of that call is 0.
EmptyValidateOnePass ==
    /\ [](EmptyLayout => OnePass /\ tries = 0)
    /\ (EmptyLayout ~> (pc = "done" /\ calls = [set_terrain |-> 1, set_numbers |-> 1, set_ports |-> 1]))

\* C4 witness: a layout with no validators has returned
EmptyValidateWitness ==
    /\ pc = "done"
    /\ args.validate = <<>>
    /\ calls = [set_terrain |-> 1, set_numbers |-> 1, set_ports |-> 1]

\* C4 as stated: layout called with no validators ends after exactly one
\* assignment pass, and the trial count of that call is 1.
EmptyValidateOneTrial ==
    /\ [](EmptyLayout => OnePass /\ tries = 1)
    /\ (EmptyLayout ~> (pc = "done" /\ calls = [set_terrain |-> 1, set_numbers |-> 1, set_ports |-> 1]))

\* every validator of the call is true of the board as it is
AllTrue == \A k \in 1..Len(args.validate) : Call(args.validate[k], Catan) = "True"

\* the setters have each run once for every trial counted
PassPerTrial ==
    /\ calls.set_terrain = tries
    /\ calls.set_numbers = tries
    /\ calls.set_ports = tries

\* C5: layout returns only with every validator true of the board it holds;
\* a pass a validator rejects is not accepted but followed by set_terrain,
\* set_numbers and set_ports, in this order, before the validators run again.
ReturnsOnlyValid ==
    /\ [](pc = "done" => AllTrue)
    /\ [](pc = "validate" /\ args.validate # <<>> => PassPerTrial)
    /\ [][/\ (pc = "validate" /\ ~AllTrue) => pc' \in {"set_terrain", "error"}
          /\ pc = "validate" /\ pc' = "set_terrain" => tries' = tries + 1
          /\ pc = "set_terrain" => pc' = "set_numbers"
          /\ pc = "set_numbers" => pc' \in {"set_ports", "error"}
          /\ pc = "set_ports" => pc' = "validate"
          /\ pc' = "validate" => pc = "set_ports"]_vars

\* C5 witness: layout has returned after a pass that was rejected
ReturnsOnlyValidWitness ==
    /\ pc = "done"
    /\ tries >= 2
    /\ PassPerTrial
    /\ AllTrue

\* C6: every validator factory yields a predicate that, applied to a laid-out
\* board as layout applies it, returns a boolean without raising an error (the
\* criteria assign to nothing of the board, so a second application reads the
\* same board and returns the same).
FactoriesYieldPredicates ==
    /\ err \notin {"NameError", "TypeError", "KeyError"}
    /\ pc = "validate" =>
        \A c \in FactoryCalls :
            /\ Factory(c).raised = ""
            /\ Call(Factory(c).value, Catan) \in {"True", "False"}

\* the port labels that name a resource, and the terrains placed on the board
PortLabels == Elems(begin_port(variant)) \ {"ANY"}

PlacedTerrains == Elems(begin_terr(variant))

\* C7: the tables are mutually inverse: for every port label p but ANY,
\* PORT_TO_TERR[p] is a terrain placed on the board and
\* TERR_TO_PORT[PORT_TO_TERR[p]] = p; for every resource terrain t,
\* PORT_TO_TERR[TERR_TO_PORT[t]] = t.
TablesInverse ==
    /\ \A p \in PortLabels :
        /\ p \in DOMAIN PORT_TO_TERR
        /\ PORT_TO_TERR[p] \in PlacedTerrains
        /\ PORT_TO_TERR[p] \in DOMAIN TERR_TO_PORT
        /\ TERR_TO_PORT[PORT_TO_TERR[p]] = p
    /\ \A t \in PlacedTerrains \ {"DSRT"} :
        /\ t \in DOMAIN TERR_TO_PORT
        /\ TERR_TO_PORT[t] \in DOMAIN PORT_TO_TERR
        /\ PORT_TO_TERR[TERR_TO_PORT[t]] = t

\* every terrain tile whose terrain is not ignored has a neighbour of its terrain
TerrainPaired(catan, ignore) ==
    \A tile \in Elems(catan.terrain) :
        \/ catan.tiles[tile].terr \in ignore
        \/ \E adj \in Adjacent(catan, tile) : catan.tiles[tile].terr = catan.tiles[adj].terr

\* C8: regions(ignore) accepts a laid-out board exactly when every terrain tile
\* whose terrain is not in ignore has a neighbour of the same terrain; the port
\* tiles are not subject to the pairing.
RegionsPairsTerrain ==
    pc = "validate" =>
        \A ignore \in IgnoreChoices :
            reg_criteria(Catan, ignore) <=> TerrainPaired(Catan, ignore)

\* the pips of the terrain next to a port that yields the port's resource
MatchingPips(catan, port) ==
    LET match == {tile \in Adjacent(catan, port) :
                     /\ catan.tiles[tile].terr \in DOMAIN TERR_TO_PORT
                     /\ TERR_TO_PORT[catan.tiles[tile].terr] = catan.tiles[port].terr}
        RECURSIVE sum(_)
        sum(set) == IF set = {} THEN 0
                    ELSE LET tile == CHOOSE m \in set : TRUE
                         IN  catan.tiles[tile].pips + sum(set \ {tile})
    IN  sum(match)

\* C9: max_port_pips(n) accepts a laid-out board exactly when for every port
\* whose resource is not ANY the pips of the adjacent terrain tiles whose
\* terrain matches the port's resource sum to at most n.
MaxPortPipsCapsPips ==
    pc = "validate" =>
        \A n \in PortPipChoices :
            (mpp_criteria(Catan, n) = "True")
                <=> \A port \in Elems(ports) :
                        tiles[port].terr # "ANY" => MatchingPips(Catan, port) <= n

\* the numbers on the tiles of the spiral that are no deserts, from the i-th on
RECURSIVE SpiralNumbers(_, _, _)
SpiralNumbers(T, sp, i) ==
    IF i > Len(sp) THEN <<>>
    ELSE (IF T[sp[i]].terr # "DSRT" THEN <<T[sp[i]].num>> ELSE <<>>)
         \o SpiralNumbers(T, sp, i + 1)

\* the numbers of a canonical list, without the '' that stands for the desert
Numeric(list) == SelectSeq(list, LAMBDA v : v # Blank)

Count(seq, v) == Cardinality({k \in 1..Len(seq) : seq[k] = v})

Permutation(a, b) == Len(a) = Len(b) /\ \A v \in Elems(a) \cup Elems(b) : Count(a, v) = Count(b, v)

\* C10: after every assignment pass of layout every desert has number 0 and
\* the terrain tiles that are no deserts, read along the spiral, carry all the
\* numbers of the mode's list: in the list's order for beginner and standard,
\* in some order for shuffle.
NumbersComplete ==
    pc \in {"validate", "done"} =>
        /\ \A tile \in Elems(terrain) : tiles[tile].terr = "DSRT" => tiles[tile].num = 0
        /\ LET got  == SpiralNumbers(tiles, spiral, 1)
               list == Numeric(NumberList(variant, args.num))
           IN  /\ Permutation(got, list)
               /\ args.num # "shuffle" => got = list

\* C10 witness: a second pass has laid the terrain out with the desert away
\* from its beginner's place and the numbers are set
NumbersCompleteWitness ==
    /\ pc = "validate"
    /\ tries >= 2
    /\ args.terr = "shuffle"
    /\ \E k \in 1..Len(begin_terr(variant)) :
        /\ begin_terr(variant)[k] = "DSRT"
        /\ tiles[columns[k]].terr # "DSRT"
        /\ tiles[columns[k]].num # 0

\* the terrain on the terrain tiles, in the order of self.terrain
TerrainLabels == [k \in 1..Len(terrain) |-> tiles[terrain[k]].terr]

\* C11: after every set_terrain call the terrain over the terrain tiles is the
\* canonical list as a multiset (no tile NONE, none skipped); in beginner mode
\* the k-th tile of the columns holds the k-th canonical entry; and set_terrain
\* changes the label of no port-flagged tile.
TerrainLaid ==
    /\ [](pc \in {"set_numbers", "set_ports", "validate", "done"} =>
            /\ Permutation(TerrainLabels, begin_terr(variant))
            /\ args.terr = "beginner" =>
                \A k \in 1..Len(begin_terr(variant)) :
                    tiles[columns[k]].terr = begin_terr(variant)[k])
    /\ [][pc = "set_terrain" =>
            \A t \in Ids : tiles[t].port => tiles'[t].terr = tiles[t].terr]_vars

\* C11 witness: set_terrain has run again with the ports labelled, and has
\* shuffled the terrain away from the beginner's
TerrainLaidWitness ==
    /\ pc = "set_numbers"
    /\ args.terr = "shuffle"
    /\ calls.set_terrain >= 2
    /\ calls.set_ports >= 1
    /\ tiles[columns[1]].terr # begin_terr(variant)[1]
    /\ \E p \in Elems(ports) : tiles[p].terr = "ANY"

Abs(n) == IF n < 0 THEN 0 - n ELSE n

\* how many hexes a tile is away from the origin (y in half units)
Ring(t) ==
    LET ax == Abs(tiles[t].x)
        ay == Abs(tiles[t].y)
    IN  IF ay <= ax THEN ax ELSE (ax + ay) \div 2

\* the port-flagged neighbours of a tile
PortNeighbours(t) == {u \in Adjacent(Catan, t) : tiles[u].port}

\* C12: the 19-tile board is built of 19 terrain tiles, the first 19 created (a
\* centre, a ring of 6, a ring of 12), and 18 port candidates that are the next
\* ring; 9 candidates are kept, alternately and in clockwise order, no two
\* kept ports being neighbours; hexes is the terrain followed by the kept ports.
BuildCounts ==
    (Constructed /\ variant = "CatanMap") =>
        /\ next_id = 37
        /\ terrain = [k \in 1..19 |-> k - 1]
        /\ \A t \in Ids : tiles[t].port <=> t >= 19
        /\ \A r \in 0..3 : Cardinality({t \in Ids : Ring(t) = r}) = (IF r = 0 THEN 1 ELSE 6 * r)
        /\ \A t \in Ids : Ring(t) = (IF t = 0 THEN 0 ELSE IF t <= 6 THEN 1 ELSE IF t <= 18 THEN 2 ELSE 3)
        /\ Len(ports) = 9
        /\ Distinct(ports)
        /\ \A k \in 1..Len(ports) : tiles[ports[k]].port
        /\ \A k \in 1..(Len(ports) - 1) : AtanGreater(tiles[ports[k]], tiles[ports[k + 1]])
        /\ \A t \in Ids : tiles[t].port =>
            /\ Cardinality(PortNeighbours(t)) = 2
            /\ IF t \in Elems(ports) THEN PortNeighbours(t) \cap Elems(ports) = {}
               ELSE PortNeighbours(t) \subseteq Elems(ports)
        /\ hexes = terrain \o ports

\* C12 witness: the 19-tile board is built, with its 9 ports
BuildCountsWitness ==
    /\ pc = "ready"
    /\ variant = "CatanMap"
    /\ Len(terrain) = 19
    /\ Len(ports) = 9
    /\ Len(hexes) = 28

\* what C13 says of one grow_hex(tile, angs) step: the occupied slots keep
\* their tiles, and one tile is made for each asked angle that was free, these
\* being what hexes gains
GrowHexKeeps(tile, angs) ==
    LET free == {a \in Elems(angs) : tiles[tile].neighbors[a] = None}
        made == next_id..(next_id' - 1)
    IN  /\ \A t \in Ids : \A a \in AngleSet :
            tiles[t].neighbors[a] # None => tiles'[t].neighbors[a] = tiles[t].neighbors[a]
        /\ next_id' = next_id + Cardinality(free)
        /\ \A a \in free : tiles'[tile].neighbors[a] \in made
        /\ hexes' = hexes \o [k \in 1..Cardinality(free) |-> next_id + k - 1]

\* C13: grow_hex(tile, angles) overwrites no neighbour: every slot of every
\* tile that was occupied before the call holds the same tile after it; it
\* makes one new tile for exactly each asked angle at which tile had no
\* neighbour, and appends exactly these to the hexes.
GrowHexNeverOverwrites ==
    [][\A tile \in Ids, angs \in AngleChoices :
          Install(GrowHex(TheMap, tile, angs, FALSE)) => GrowHexKeeps(tile, angs)]_vars

\* layout runs with validators and with all three modes fixed: every pass
\* lays out the same board
FixedModes ==
    /\ pc \in {"set_terrain", "set_numbers", "set_ports", "validate", "done", "error"}
    /\ args.validate # <<>>
    /\ args.terr = "beginner"
    /\ args.port = "beginner"
    /\ args.num \in {"beginner", "standard"}

Rejected == pc = "validate" /\ Validation(Catan, args.validate) = "reject"

\* C14: when a validator rejects every layout the modes can produce (the modes
\* fixed and their layout rejected), layout never returns: a rejected pass is
\* followed by the next with the trial counter one higher, nothing but a
\* rejection comes of any later validation, no return and no error ends the
\* loop, and the trial counter grows as far as it is followed.
NeverReturns ==
    /\ [][Rejected => pc' = "set_terrain" /\ tries' = tries + 1]_vars
    /\ [](FixedModes /\ tries >= 2 =>
            /\ pc \notin {"done", "error"}
            /\ pc = "validate" => Rejected)
    /\ (FixedModes /\ Rejected) ~> (FixedModes /\ Rejected /\ tries = MaxTries)

\* C14 witness: with fixed modes the layout is rejected again, at the last
\* value of the trial counter that is followed
NeverReturnsWitness ==
    /\ FixedModes
    /\ Rejected
    /\ tries = MaxTries
    /\ PassPerTrial

\* C15: in every reachable state every tile, from its creation and after every
\* assignment of its number, has pips = 6 - |7 - num|: a number in 2..12 goes
\* with 1..5 pips, the number 0 (desert, port, not yet numbered) with -1.
PipsConsistent ==
    \A t \in Ids :
        /\ tiles[t].num \in 0..12
        /\ tiles[t].pips = 6 - Abs(7 - tiles[t].num)
        /\ tiles[t].num \in 2..12 => tiles[t].pips \in 1..5
        /\ tiles[t].num = 0 => tiles[t].pips = -1

\* C15 witness: a retry pass has numbered the board: a 12 with one pip, an 8
\* with five, a desert and a port with -1
PipsConsistentWitness ==
    /\ pc = "validate"
    /\ tries >= 2
    /\ \E t \in Elems(terrain) : tiles[t].num = 12 /\ tiles[t].pips = 1
    /\ \E t \in Elems(terrain) : tiles[t].num = 8 /\ tiles[t].pips = 5
    /\ \E t \in Elems(terrain) : tiles[t].terr = "DSRT" /\ tiles[t].pips = -1
    /\ \E t \in Elems(ports) : tiles[t].num = 0 /\ tiles[t].pips = -1

\* C16: the columns of a freshly built board hold every terrain tile exactly
\* once and no port-flagged tile, as whole columns each from top to bottom,
\* the columns following one another from left to right by their x.
ColumnsOrdered ==
    Constructed =>
        /\ Distinct(columns)
        /\ Elems(columns) = Elems(terrain)
        /\ \A k \in 1..Len(columns) : ~tiles[columns[k]].port
        /\ \A k \in 1..(Len(columns) - 1) :
            \/ tiles[columns[k]].x < tiles[columns[k + 1]].x
            \/ /\ tiles[columns[k]].x = tiles[columns[k + 1]].x
               /\ tiles[columns[k]].y < tiles[columns[k + 1]].y

\* the last tile of the spiral has, at angle a, a neighbour that is present,
\* unvisited and not a port
SpiralFree(a) ==
    LET target == tiles[spiral[Len(spiral)]].neighbors[a]
    IN  target # None /\ ~InSeq(target, spiral) /\ ~tiles[target].port

\* the direction after k turns of -60 degrees
Turned(k) == (local.angle + 300 * k) % 360

\* C17: on any graph the spiral derivation ends, and never with a part of the
\* spiral: while the spiral is shorter than the terrain, a step raises
\* ValueError exactly when none of the six directions of the last tile is free,
\* and otherwise appends the tile in the first free direction, taking the
\* current direction first and turning by -60 degrees at a time; each step
\* that does not end the derivation makes the spiral one tile longer, up to the
\* length of the terrain, with which it ends.
SpiralDerivation ==
    /\ [][pc = "arrange_spiral" /\ Len(spiral) < Len(terrain) =>
            IF \A a \in AngleSet : ~SpiralFree(a)
              THEN pc' = "error" /\ err' = "ValueError" /\ spiral' = spiral
              ELSE /\ pc' = "arrange_spiral"
                   /\ Len(spiral') = Len(spiral) + 1
                   /\ \E k \in 0..5 :
                        /\ SpiralFree(Turned(k))
                        /\ \A j \in 0..(k - 1) : ~SpiralFree(Turned(j))
                        /\ local'.angle = Turned(k)
                        /\ spiral' = Append(spiral,
                                tiles[spiral[Len(spiral)]].neighbors[Turned(k)])]_vars
    /\ [][pc = "arrange_spiral" /\ Len(spiral) >= Len(terrain) =>
            pc' = "ready" /\ spiral' = spiral]_vars
    /\ [](pc = "arrange_spiral" => Len(spiral) <= Len(terrain))
    /\ [](pc = "ready" => Len(spiral) = Len(terrain))
    /\ [](pc = "error" /\ err = "ValueError" =>
            /\ Len(spiral) < Len(terrain)
            /\ \A a \in AngleSet : ~SpiralFree(a))
    /\ (pc = "arrange_spiral") ~> (pc \in {"ready", "error"})

\* C17 witness: a derivation is caught after some tiles, on a graph with port
\* tiles, having turned before
SpiralDerivationWitness ==
    /\ pc = "error"
    /\ err = "ValueError"
    /\ Len(spiral) >= 3
    /\ ports # <<>>
    /\ local.angle # 60

\* the tile at the fixed offset for angle a from tile t is u
OffsetBy(t, a, u) ==
    /\ tiles[u].x = tiles[t].x + angle_xy(a)[1]
    /\ tiles[u].y = tiles[t].y + angle_xy(a)[2]

\* no two tiles made so far are at the same (x, y)
NoTwoAtOnePlace ==
    \A t, u \in Ids : (tiles[t].x = tiles[u].x /\ tiles[t].y = tiles[u].y) => t = u

\* build of the 19-tile board has just returned
BuildFinished == variant = "CatanMap" /\ pc = "_explore"

\* C18: when build of the 19-tile board has finished, the 37 tiles made, the
\* port candidates dropped among them, are a hex tessellation: no two tiles at
\* the same (x, y), every link at angle a between tiles that differ by the
\* offset for a, and every two tiles that differ by one of the six offsets
\* linked to each other; nothing changes the places and links afterwards, and
\* at no time of the construction is a tile made at a place already taken.
Tessellation ==
    /\ [](BuildFinished =>
            /\ next_id = 37
            /\ NoTwoAtOnePlace
            /\ \A t \in Ids : \A a \in AngleSet :
                LET u == tiles[t].neighbors[a]
                IN  u # None => OffsetBy(t, a, u)
            /\ \A t, u \in Ids : \A a \in AngleSet :
                OffsetBy(t, a, u) =>
                    /\ tiles[t].neighbors[a] = u
                    /\ tiles[u].neighbors[(a + 180) % 360] = t)
    /\ [][variant = "CatanMap" /\ pc \notin {"new", "build"} =>
            /\ next_id' = next_id
            /\ \A t \in Ids :
                /\ tiles'[t].x = tiles[t].x
                /\ tiles'[t].y = tiles[t].y
                /\ tiles'[t].neighbors = tiles[t].neighbors]_vars
    /\ [](variant = "CatanMap" => NoTwoAtOnePlace)

\* C18 witness: build of the 19-tile board has finished with 37 tiles, and a
\* port candidate that was dropped is linked to three tiles or more, one of
\* them made after it
TessellationWitness ==
    /\ BuildFinished
    /\ next_id = 37
    /\ \E t \in Ids :
        /\ ~InSeq(t, hexes)
        /\ Cardinality({a \in AngleSet : tiles[t].neighbors[a] # None}) >= 3
        /\ \E a \in AngleSet : tiles[t].neighbors[a] # None /\ tiles[t].neighbors[a] > t

====
